---- MODULE Spec2Model ----
(***************************************************************************)
(* A model of the exam-paper vault (src/app.py): the JSON record store,    *)
(* the upload root on disk, and the upload / delete / list / serve         *)
(* handlers that read and write them.                                      *)
(*                                                                         *)
(* Text is modelled as a sequence of tokens.  A token is either one        *)
(* significant character ("/", "\\", ".", " ", "-", a digit ...) or a      *)
(* chunk of ordinary name characters ("Physics", "pdf") that contains no   *)
(* significant character; every string operation of the code that the      *)
(* model needs (strip, replace, rsplit, lower, fullmatch) acts on the      *)
(* significant characters only, so it acts the same on the tokens.         *)
(***************************************************************************)
EXTENDS Integers, Sequences, FiniteSets, TLC

\* Python's None, and a present optional value
None == <<>>
Some(v) == <<v>>

----------------------------------------------------------------------------
(* Generic sequence helpers *)

RECURSIVE DropWhileIn(_, _)
DropWhileIn(s, chars) ==
    IF s # <<>> /\ Head(s) \in chars THEN DropWhileIn(Tail(s), chars) ELSE s

Front(s) == SubSeq(s, 1, Len(s) - 1)

RECURSIVE DropTrailIn(_, _)
DropTrailIn(s, chars) ==
    IF s # <<>> /\ s[Len(s)] \in chars THEN DropTrailIn(Front(s), chars) ELSE s

\* str.strip(): leading and trailing whitespace removed
Strip(s) == DropTrailIn(DropWhileIn(s, {" "}), {" "})

\* str.lstrip("/")
LStripSlash(s) == DropWhileIn(s, {"/"})

\* str.replace(old, new) for a one-character old and new
RECURSIVE Replace1(_, _, _)
Replace1(s, old, new) ==
    IF s = <<>> THEN <<>>
    ELSE <<IF Head(s) = old THEN new ELSE Head(s)>> \o Replace1(Tail(s), old, new)

\* str.replace(old, "") for a one-character old
RECURSIVE Remove1(_, _)
Remove1(s, old) ==
    IF s = <<>> THEN <<>>
    ELSE (IF Head(s) = old THEN <<>> ELSE <<Head(s)>>) \o Remove1(Tail(s), old)

\* str.replace(cc, new) for a two-character old (c followed by c): Python scans
\* left to right and replaces non-overlapping occurrences, once
RECURSIVE Replace2(_, _, _)
Replace2(s, c, new) ==
    IF Len(s) < 2 THEN s
    ELSE IF s[1] = c /\ s[2] = c
         THEN <<new>> \o Replace2(SubSeq(s, 3, Len(s)), c, new)
         ELSE <<Head(s)>> \o Replace2(Tail(s), c, new)

\* all sequences over S of length 0..n
SeqsUpTo(S, n) == UNION {[1..k -> S] : k \in 0..n}

RECURSIVE SeqMax(_)
SeqMax(s) == IF s = <<>> THEN 0
             ELSE LET m == SeqMax(Tail(s)) IN IF Head(s) > m THEN Head(s) ELSE m

----------------------------------------------------------------------------
(* Utilities of app.py *)

Digits == {"0", "1", "2", "3", "4", "5", "6", "7", "8", "9"}

DigitVal(c) ==
    CASE c = "0" -> 0 [] c = "1" -> 1 [] c = "2" -> 2 [] c = "3" -> 3
      [] c = "4" -> 4 [] c = "5" -> 5 [] c = "6" -> 6 [] c = "7" -> 7
      [] c = "8" -> 8 [] c = "9" -> 9

DigitChar(d) ==
    CASE d = 0 -> "0" [] d = 1 -> "1" [] d = 2 -> "2" [] d = 3 -> "3"
      [] d = 4 -> "4" [] d = 5 -> "5" [] d = 6 -> "6" [] d = 7 -> "7"
      [] d = 8 -> "8" [] d = 9 -> "9"

AllDigits(s) == \A i \in 1..Len(s) : s[i] \in Digits

\* int(s) of a digit string
RECURSIVE DigitsToInt(_)
DigitsToInt(s) ==
    IF s = <<>> THEN 0 ELSE 10 * DigitsToInt(Front(s)) + DigitVal(s[Len(s)])

\* str(n) of a natural number
RECURSIVE IntToDigits(_)
IntToDigits(n) ==
    IF n < 10 THEN <<DigitChar(n)>>
    ELSE IntToDigits(n \div 10) \o <<DigitChar(n % 10)>>

\* int(text or "0"): Some(n), or None where Python raises ValueError
IntOrZero(s) ==
    LET t == IF s = <<>> THEN <<"0">> ELSE Strip(s)
    IN  IF t # <<>> /\ AllDigits(t) THEN Some(DigitsToInt(t)) ELSE None

\* parse_exam_year, the end of a range: the four digits as they are, or the
\* start's century with the two digits; start + 1 when that is before start
EndYearUncoerced(start, end_part) ==
    IF Len(end_part) = 4 THEN DigitsToInt(end_part)
    ELSE (start \div 100) * 100 + DigitsToInt(end_part)

EndYear(start, end_part) ==
    LET end == IF Len(end_part) = 4
               THEN DigitsToInt(end_part)
               ELSE DigitsToInt(IntToDigits((start \div 100) * 100 + DigitsToInt(end_part)))
    IN  IF end < start THEN start + 1 ELSE end

\* parse_exam_year: [exam_year |-> Some(int) or None, academic_year |-> text or None]
parse_exam_year(value) ==
    LET s == Remove1(Replace1(Replace1(Strip(value), "en-dash", "-"),
                              "em-dash", "-"), " ")
    IN  IF Len(s) = 4 /\ AllDigits(s)
        THEN [exam_year |-> Some(DigitsToInt(s)), academic_year |-> None]
        ELSE IF /\ Len(s) \in {7, 9}
                /\ AllDigits(SubSeq(s, 1, 4))
                /\ s[5] = "-"
                /\ AllDigits(SubSeq(s, 6, Len(s)))
        THEN LET start    == DigitsToInt(SubSeq(s, 1, 4))
                 end_part == SubSeq(s, 6, Len(s))
                 end      == EndYear(start, end_part)
             IN  [exam_year     |-> Some(start),
                  academic_year |-> IntToDigits(start) \o <<"-">> \o IntToDigits(end)]
        ELSE [exam_year |-> None, academic_year |-> None]

\* str.lower() of one token: the chunks the model uses, by case
Lower(tok) ==
    CASE tok = "PDF"   -> "pdf"
      [] tok = "Maths" -> "maths"
      [] tok = "Physics" -> "physics"
      [] tok = "Mid"   -> "mid"
      [] tok = "End"   -> "end"
      [] OTHER         -> tok

ALLOWED_EXTENSIONS == {"pdf", "jpg", "jpeg", "png"}

\* the text after the last "." (filename.rsplit(".", 1)[1]); a chunk holds no "."
RECURSIVE AfterLastDot(_)
AfterLastDot(s) ==
    IF s[Len(s)] = "." THEN <<>> ELSE AfterLastDot(Front(s)) \o <<s[Len(s)]>>

allowed_file(filename) ==
    /\ \E i \in 1..Len(filename) : filename[i] = "."
    /\ LET ext == AfterLastDot(filename)
       IN  Len(ext) = 1 /\ Lower(ext[1]) \in ALLOWED_EXTENSIONS

\* werkzeug's secure_filename: path separators and whitespace become "_",
\* then leading and trailing "." and "_" are stripped
secure_filename(filename) ==
    LET a == Replace1(Replace1(Replace1(filename, "/", " "), "\\", " "), " ", "_")
    IN  DropTrailIn(DropWhileIn(a, {".", "_"}), {".", "_"})

----------------------------------------------------------------------------
(* Path normalisation *)

\* normalize_data_paths, the fix of one stored_path:
\* sp.replace("\\\\", "/").replace("\\", "/")
FixStoredPath(sp) == Replace1(Replace2(sp, "\\", "/"), "\\", "/")

\* normalize_data_paths on the loaded collection: the healed collection
HealedData(coll) ==
    [i \in 1..Len(coll) |->
        [coll[i] EXCEPT !.stored_path = FixStoredPath(coll[i].stored_path)]]

\* serve_file: relpath.replace("\\", "/").replace("//", "/").lstrip("/")
ServeNormalize(relpath) ==
    LStripSlash(Replace2(Replace1(relpath, "\\", "/"), "/", "/"))

----------------------------------------------------------------------------
(* Listing: the filter and the sort of papers_list *)

\* Python's order on the characters and chunks the model compares
\* (code points: digits < upper case < lower case)
TokRank(tok) ==
    CASE tok = "End"     -> 1
      [] tok = "Maths"   -> 2
      [] tok = "Mid"     -> 3
      [] tok = "Physics" -> 4
      [] tok = "maths"   -> 5
      [] tok = "physics" -> 6
      [] OTHER           -> 7

\* a < b for two texts, token by token
RECURSIVE TextLess(_, _)
TextLess(a, b) ==
    IF b = <<>> THEN FALSE
    ELSE IF a = <<>> THEN TRUE
    ELSE IF TokRank(Head(a)) # TokRank(Head(b))
         THEN TokRank(Head(a)) < TokRank(Head(b))
         ELSE TextLess(Tail(a), Tail(b))

LowerText(s) == [i \in 1..Len(s) |-> Lower(s[i])]

\* the sort key (-exam_year, subject, exam_type), compared as Python
\* compares tuples
SortKeyLessAscendingYear(x, y) ==
    \/ x.exam_year < y.exam_year
    \/ /\ x.exam_year = y.exam_year
       /\ \/ TextLess(x.subject, y.subject)
          \/ x.subject = y.subject /\ TextLess(x.exam_type, y.exam_type)

SortKeyLess(x, y) ==
    \/ -x.exam_year < -y.exam_year
    \/ /\ x.exam_year = y.exam_year
       /\ \/ TextLess(x.subject, y.subject)
          \/ x.subject = y.subject /\ TextLess(x.exam_type, y.exam_type)

\* list.sort(key=...): stable, so x goes after every element not greater
RECURSIVE InsertSorted(_, _)
InsertSorted(sorted, x) ==
    IF sorted = <<>> THEN <<x>>
    ELSE IF SortKeyLess(x, Head(sorted))
         THEN <<x>> \o sorted
         ELSE <<Head(sorted)>> \o InsertSorted(Tail(sorted), x)

RECURSIVE SortPapers(_)
SortPapers(s) ==
    IF s = <<>> THEN <<>>
    ELSE InsertSorted(SortPapers(Front(s)), s[Len(s)])

\* int(year_str) if year_str else None, ValueError -> None
FilterInt(text) ==
    LET t == Strip(text)
    IN  IF t # <<>> /\ AllDigits(t) THEN Some(DigitsToInt(t)) ELSE None

\* the loop body's four tests: TRUE when record p is kept
KeepsPaper(p, args) ==
    LET year     == FilterInt(args.year)
        semester == FilterInt(args.semester)
        subject  == Strip(args.subject)
        exam_type == Strip(args.exam_type)
    IN  /\ ~(year # None /\ p.year # year[1])
        /\ ~(semester # None /\ p.semester # semester[1])
        /\ ~(subject # <<>> /\ LowerText(p.subject) # LowerText(subject))
        /\ ~(exam_type # <<>> /\ p.exam_type # exam_type)

RECURSIVE FilterPapers(_, _)
FilterPapers(coll, args) ==
    IF coll = <<>> THEN <<>>
    ELSE (IF KeepsPaper(Head(coll), args) THEN <<Head(coll)>> ELSE <<>>)
         \o FilterPapers(Tail(coll), args)

\* papers_list: the `papers` handed to the template
papers_list(coll, args) == SortPapers(FilterPapers(coll, args))

----------------------------------------------------------------------------
(* Paths (pathlib), as text *)

\* app.config["UPLOAD_FOLDER"] = BASE_DIR / "uploads"
UPLOAD_FOLDER == <<"/", "app", "/", "uploads">>

\* a / b: an absolute b replaces a
PathJoin(a, b) ==
    IF b # <<>> /\ b[1] = "/" THEN b ELSE a \o <<"/">> \o b

IsPrefix(a, b) == Len(a) <= Len(b) /\ SubSeq(b, 1, Len(a)) = a

\* path.relative_to(root).as_posix(): Some(text), or None for ValueError
RelativeTo(path, root) ==
    IF IsPrefix(root \o <<"/">>, path)
    THEN Some(SubSeq(path, Len(root) + 2, Len(path)))
    ELSE None

\* the components of a path: the texts between its "/"
RECURSIVE Components(_)
Components(path) ==
    IF path = <<>> THEN <<>>
    ELSE LET cuts == {i \in 1..Len(path) : path[i] = "/"}
             k    == IF cuts = {} THEN Len(path) + 1
                     ELSE CHOOSE i \in cuts : \A j \in cuts : i <= j
             head == SubSeq(path, 1, k - 1)
         IN  (IF head = <<>> THEN <<>> ELSE <<head>>)
             \o Components(SubSeq(path, k + 1, Len(path)))

\* the walk of the file system over the components: ".." goes up, "." stays
RECURSIVE Walk(_, _)
Walk(comps, at) ==
    IF comps = <<>> THEN at
    ELSE IF Head(comps) = <<"..">>
         THEN Walk(Tail(comps), IF at = <<>> THEN <<>> ELSE Front(at))
    ELSE IF Head(comps) = <<".">> THEN Walk(Tail(comps), at)
    ELSE Walk(Tail(comps), Append(at, Head(comps)))

RECURSIVE Joined(_)
Joined(comps) ==
    IF comps = <<>> THEN <<>> ELSE <<"/">> \o Head(comps) \o Joined(Tail(comps))

\* the place an absolute path names when the file system opens it (mkdir,
\* exists, unlink, save): pathlib keeps ".." in the text, the system walks it
Real(path) ==
    LET at == Walk(Components(path), <<>>)
    IN  IF at = <<>> THEN <<"/">> ELSE Joined(at)

\* the directories mkdir(parents=True, exist_ok=True) leaves in existence
WithParents(dir) ==
    {Real(SubSeq(dir, 1, k)) :
        k \in {j \in 1..Len(dir) : j = Len(dir) \/ dir[j + 1] = "/"}}
        \ {<<"/">>}

----------------------------------------------------------------------------
(* State *)

VARIABLES
    persisted,  \* the records in DATA_FILE (papers.json), in order
    disk,       \* the files on disk: path |-> content
    dirs,       \* the directories on disk
    session,    \* session[c]: client c's is_admin flag
    pc,         \* pc[c]: where the handler serving client c stands
    local,      \* local[c]: that handler's local variables
    last,       \* what the last step received and answered: a request, flashes
    removed,    \* the ids of the records that a save_data has removed so far
    call        \* the last call of a read-only handler and what it returned

vars == <<persisted, disk, dirs, session, pc, local, last, removed, call>>

\* two clients, each with a session of its own, served concurrently
Clients == {1, 2}

NoRequest == [kind |-> "none"]
NoLocal == [data |-> <<>>]
NoCall == [op |-> "none"]
NoEvent == [client |-> 0, request |-> NoRequest, flashes |-> <<>>, returned |-> FALSE]

\* the step received request r from client c and has not answered yet
Received(c, r) == [client |-> c, request |-> r, flashes |-> <<>>, returned |-> FALSE]
\* the step received r from c and answered it
Answered(c, r, flashes) ==
    [client |-> c, request |-> r, flashes |-> flashes, returned |-> TRUE]
\* the step answered the request of c received earlier
Returned(c, flashes) ==
    [client |-> c, request |-> NoRequest, flashes |-> flashes, returned |-> TRUE]

\* the step of c's handler called unlink on an old duplicate, with this outcome
Removal(c, outcome) ==
    [client |-> c, request |-> [kind |-> "unlink", outcome |-> outcome],
     flashes |-> <<>>, returned |-> FALSE]

\* what a specification records in `last`: E.log is FALSE where no property
\* of the specification reads it (and E.history likewise, for `removed`)
Log(E, event) == IF E.log THEN event ELSE NoEvent

Flash(category, text) == [category |-> category, text |-> text, count |-> 0, about |-> <<>>]
FlashN(category, text, n) == [category |-> category, text |-> text, count |-> n, about |-> <<>>]
FlashAbout(category, text, about) ==
    [category |-> category, text |-> text, count |-> 0, about |-> about]

\* an uncaught exception: the request ends with a 500 and flashes nothing
ServerError == <<Flash("error", "500")>>
RedirectToLogin == <<Flash("redirect", "admin_login")>>

load_data == persisted

next_idFromLength(data) == Len(data) + 1

next_id(data) == SeqMax([i \in 1..Len(data) |-> data[i].id]) + 1

----------------------------------------------------------------------------
(* Inputs *)

\* app.config["UPLOAD_PASSWORD"] (default "odisha123")
UPLOAD_PASSWORD == <<"odisha123">>

Passwords == {<<"odisha123">>, <<" ", "odisha123">>, <<"wrong">>}

\* the most files in one upload request, and the largest id the model assigns
MaxFiles == 2
MaxId == 3

\* the outcomes of a file-system call that can fail
IoAny == {"ok", "fails"}
IoOk == {"ok"}

FilePart(filename, body) == [filename |-> filename, body |-> body]

APdf1 == FilePart(<<"a", ".", "pdf">>, "v1")
APdf2 == FilePart(<<"a", ".", "pdf">>, "v2")
ABPdf == FilePart(<<"a", " ", "b", ".", "PDF">>, "v1")
NExe == FilePart(<<"n", ".", "exe">>, "v1")
EmptyPart == FilePart(<<>>, "")

Form(subject, exam_type, year, semester, exam_year) ==
    [subject |-> subject, exam_type |-> exam_type, year |-> year,
     semester |-> semester, exam_year |-> exam_year]

Text2023 == <<"2", "0", "2", "3">>
Text2024to25 == <<"2", "0", "2", "4", "en-dash", "2", "5">>

GoodForm == Form(<<"Physics">>, <<"Mid">>, <<"1">>, <<"1">>, Text2023)
GoodForm2 == Form(<<" ", "Maths">>, <<"End", " ">>, <<"2">>, <<"3">>, Text2024to25)

\* forms that fail one check each
BadForms ==
    { [GoodForm EXCEPT !.year = <<"x">>],
      [GoodForm EXCEPT !.semester = <<"1", ".", "5">>],
      [GoodForm EXCEPT !.year = <<"5">>],
      [GoodForm EXCEPT !.year = <<>>],
      [GoodForm EXCEPT !.semester = <<"9">>],
      [GoodForm EXCEPT !.semester = <<"0">>],
      [GoodForm EXCEPT !.exam_type = <<"mid">>],
      [GoodForm EXCEPT !.exam_type = <<>>],
      [GoodForm EXCEPT !.subject = <<" ">>],
      [GoodForm EXCEPT !.exam_year = <<"abc">>],
      [GoodForm EXCEPT !.exam_year = <<>>],
      [GoodForm EXCEPT !.exam_year = <<"1", "9", "9", "9">>],
      [GoodForm EXCEPT !.exam_year = <<"0", "0", "0", "0">>],
      [GoodForm EXCEPT !.exam_year = <<"2", "0", "2", "4", "-", "5">>] }

UploadRequest(form, files) == [kind |-> "upload", form |-> form, files |-> files]
DeleteRequest(paper_id) == [kind |-> "delete", paper_id |-> paper_id]
LoginRequest(password) == [kind |-> "login", password |-> password]
LogoutRequest == [kind |-> "logout"]

DeleteRequests == {DeleteRequest(k) : k \in 1..MaxId}

\* An environment: the upload requests clients send, the outcomes of the
\* file-system calls and the values of datetime.now()

\* the sequential specification: batches that mix accepted, unsupported and
\* empty parts, two uploads of one name with different content
SeqUploads ==
    {UploadRequest(GoodForm, fs) : fs \in SeqsUpTo({APdf1, NExe}, MaxFiles)}
    \cup {UploadRequest(GoodForm, <<EmptyPart>>),
          UploadRequest(GoodForm, <<EmptyPart, APdf2>>),
          UploadRequest([GoodForm EXCEPT !.semester = <<"9">>], <<APdf1>>)}

SeqEnv == [uploads |-> SeqUploads, io |-> IoAny, times |-> {"t1"}, log |-> TRUE, history |-> FALSE]

\* the same where no file-system call fails, with a second form and two
\* values of the clock
SeqOkEnv ==
    [uploads |-> SeqUploads \cup {UploadRequest(GoodForm2, <<ABPdf>>)},
     io |-> IoOk, times |-> {"t1", "t2"}, log |-> TRUE, history |-> TRUE]

\* the validation specification: every kind of bad form
CheckUploads ==
    {UploadRequest(f, <<APdf1>>) : f \in BadForms \cup {GoodForm}}
    \cup {UploadRequest(GoodForm, <<>>), UploadRequest(GoodForm, <<EmptyPart>>)}

CheckEnv == [uploads |-> CheckUploads, io |-> IoAny, times |-> {"t1"}, log |-> TRUE, history |-> FALSE]

\* the path specification: subjects that pass the field check and hold a
\* backslash, ".." components or a leading "/"
SubjectTexts ==
    { <<"Physics">>,
      <<"a", "\\", "b">>,
      <<"..", "/", "..", "/", "..", "/", "x">>,
      <<"/", "etc">> }

PathUploads ==
    {UploadRequest([GoodForm EXCEPT !.subject = sub], <<APdf1>>) : sub \in SubjectTexts}

PathEnv == [uploads |-> PathUploads, io |-> IoOk, times |-> {"t1"}, log |-> TRUE, history |-> FALSE]

\* the concurrent specification
FewUploads ==
    {UploadRequest(GoodForm, fs) : fs \in SeqsUpTo({APdf1}, MaxFiles) \ {<<>>}}
    \cup {UploadRequest(GoodForm, <<NExe>>),
          UploadRequest([GoodForm EXCEPT !.semester = <<"9">>], <<APdf1>>)}

FewEnv == [uploads |-> FewUploads, io |-> IoOk, times |-> {"t1"}, log |-> FALSE, history |-> FALSE]

----------------------------------------------------------------------------
(* The handlers.  A handler that reads or writes shared state more than once *)
(* is several steps, and the steps of two handlers interleave.               *)

\* the handler of client c returns
Return(c) ==
    /\ pc' = [pc EXCEPT ![c] = "idle"]
    /\ local' = [local EXCEPT ![c] = NoLocal]

\* admin_login, POST
admin_loginAnyPassword(c, E) ==
    /\ pc[c] = "idle"
    /\ \E raw \in Passwords :
         /\ session' = [session EXCEPT ![c] = TRUE]
         /\ last' = Log(E, Answered(c, LoginRequest(raw),
                             <<Flash("success", "Logged in successfully.")>>))
    /\ UNCHANGED <<persisted, disk, dirs, pc, local, removed, call>>

admin_login(c, E) ==
    /\ pc[c] = "idle"
    /\ \E raw \in Passwords :
         LET password == Strip(raw)
         IN  IF password = UPLOAD_PASSWORD
             THEN /\ session' = [session EXCEPT ![c] = TRUE]
                  /\ last' = Log(E, Answered(c, LoginRequest(raw),
                                      <<Flash("success", "Logged in successfully.")>>))
             ELSE /\ session' = session
                  /\ last' = Log(E, Answered(c, LoginRequest(raw),
                                      <<Flash("danger", "Incorrect password.")>>))
    /\ UNCHANGED <<persisted, disk, dirs, pc, local, removed, call>>

admin_logout(c, E) ==
    /\ pc[c] = "idle"
    /\ session' = [session EXCEPT ![c] = FALSE]
    /\ last' = Log(E, Answered(c, LogoutRequest, <<Flash("success", "Logged out.")>>))
    /\ UNCHANGED <<persisted, disk, dirs, pc, local, removed, call>>

\* files = [f for f in files if f and f.filename]
RECURSIVE DropEmpties(_)
DropEmpties(files) ==
    IF files = <<>> THEN <<>>
    ELSE (IF Head(files).filename # <<>> THEN <<Head(files)>> ELSE <<>>)
         \o DropEmpties(Tail(files))

MsgNumbers == "Year/semester must be numbers."
MsgExamYear == "Please enter a valid year like 2024 or 2024-25."
MsgNoFile == "Please choose at least one file."
MsgFields == "Please fill all fields correctly."

\* upload's checks before any I/O, in the code's order: the message flashed, or "ok"
UploadCheckSemesterUnchecked(form, files) ==
    LET subject   == Strip(form.subject)
        exam_type == Strip(form.exam_type)
        year      == IntOrZero(form.year)
        semester  == IntOrZero(form.semester)
        parsed    == parse_exam_year(Strip(form.exam_year))
    IN  IF year = None \/ semester = None THEN MsgNumbers
        ELSE IF \/ parsed.exam_year = None
                \/ parsed.exam_year[1] = 0
                \/ parsed.exam_year[1] < 2000 THEN MsgExamYear
        ELSE IF files = <<>> THEN MsgNoFile
        ELSE IF \/ subject = <<>>
                \/ exam_type \notin {<<"Mid">>, <<"End">>}
                \/ year[1] \notin {1, 2, 3, 4} THEN MsgFields
        ELSE "ok"

UploadCheck(form, files) ==
    LET subject   == Strip(form.subject)
        exam_type == Strip(form.exam_type)
        year      == IntOrZero(form.year)
        semester  == IntOrZero(form.semester)
        parsed    == parse_exam_year(Strip(form.exam_year))
    IN  IF year = None \/ semester = None THEN MsgNumbers
        ELSE IF \/ parsed.exam_year = None
                \/ parsed.exam_year[1] = 0
                \/ parsed.exam_year[1] < 2000 THEN MsgExamYear
        ELSE IF files = <<>> THEN MsgNoFile
        ELSE IF \/ subject = <<>>
                \/ exam_type \notin {<<"Mid">>, <<"End">>}
                \/ year[1] \notin {1, 2, 3, 4}
                \/ semester[1] \notin 1..8 THEN MsgFields
        ELSE "ok"

\* UPLOAD_FOLDER / str(year) / str(semester) / subject / exam_type
TargetDir(year, semester, subject, exam_type) ==
    PathJoin(PathJoin(PathJoin(PathJoin(UPLOAD_FOLDER,
        IntToDigits(year)), IntToDigits(semester)), subject), exam_type)

\* upload, POST: from the session check to load_data
UploadEnter(c, E) ==
    /\ pc[c] = "idle"
    /\ UNCHANGED <<persisted, disk, session, removed, call>>
    /\ \E r \in E.uploads :
         IF ~session[c]
         THEN /\ last' = Log(E, Answered(c, r, RedirectToLogin))
              /\ UNCHANGED <<dirs, pc, local>>
         ELSE LET form   == r.form
                  files  == DropEmpties(r.files)
                  check  == UploadCheck(form, files)
                  parsed == parse_exam_year(Strip(form.exam_year))
              IN  IF check # "ok"
                  THEN /\ last' = Log(E, Answered(c, r,
                                    <<Flash(IF check = MsgNumbers THEN "danger"
                                            ELSE "warning", check)>>))
                       /\ UNCHANGED <<dirs, pc, local>>
                  ELSE \E mkdir \in E.io :
                         LET year       == IntOrZero(form.year)[1]
                             semester   == IntOrZero(form.semester)[1]
                             subject    == Strip(form.subject)
                             exam_type  == Strip(form.exam_type)
                             target_dir == TargetDir(year, semester, subject, exam_type)
                         IN  IF mkdir = "fails"
                             THEN /\ last' = Log(E, Answered(c, r, ServerError))
                                  /\ UNCHANGED <<dirs, pc, local>>
                             ELSE /\ next_id(load_data) - 1 + Len(files) <= MaxId
                                  /\ dirs' = dirs \cup WithParents(target_dir)
                                  /\ pc' = [pc EXCEPT ![c] = "upload_files"]
                                  /\ last' = Log(E, Received(c, r))
                                  /\ local' = [local EXCEPT ![c] =
                                       [data          |-> load_data,
                                        files         |-> files,
                                        i             |-> 1,
                                        saved_count   |-> 0,
                                        skipped_count |-> 0,
                                        warnings      |-> <<>>,
                                        year          |-> year,
                                        semester      |-> semester,
                                        subject       |-> subject,
                                        exam_type     |-> exam_type,
                                        exam_year     |-> parsed.exam_year[1],
                                        academic_year |-> parsed.academic_year,
                                        target_dir    |-> target_dir]]

Exists(path) == path \in DOMAIN disk \/ path \in dirs

Unlinked(d, path) == [q \in (DOMAIN d) \ {path} |-> d[q]]

Written(d, path, body) ==
    [q \in (DOMAIN d) \cup {path} |-> IF q = path THEN body ELSE d[q]]

\* warnings.append(...); skipped_count += 1; continue
SkipUncounted(c, warning) ==
    local' = [local EXCEPT ![c].warnings = Append(@, warning),
                           ![c].i = @ + 1]

Skip(c, warning) ==
    local' = [local EXCEPT ![c].warnings = Append(@, warning),
                           ![c].skipped_count = @ + 1,
                           ![c].i = @ + 1]

\* upload: one turn of `for f in files`
UploadFile(c, E) ==
    /\ pc[c] = "upload_files" /\ local[c].i <= Len(local[c].files)
    /\ UNCHANGED <<persisted, dirs, session, removed, call>>
    /\ LET l         == local[c]
           f         == l.files[l.i]
           safe_name == secure_filename(f.filename)
           file_path == PathJoin(l.target_dir, safe_name)
           place     == Real(file_path)
       IN  IF ~allowed_file(f.filename)
           THEN /\ Skip(c, [kind |-> "Skipped unsupported type", name |-> f.filename])
                /\ last' = NoEvent
                /\ UNCHANGED <<disk, pc>>
           ELSE \E unlink \in (IF Exists(place) THEN E.io ELSE {"ok"}) :
                  LET removes == Exists(place)
                      failed  == removes /\ (unlink = "fails" \/ place \in dirs)
                      cleared == IF removes THEN Unlinked(disk, place) ELSE disk
                      rel     == RelativeTo(file_path, UPLOAD_FOLDER)
                  IN  IF failed
                      THEN /\ Skip(c, [kind |-> "Couldn't remove old duplicate",
                                       name |-> safe_name])
                           /\ last' = Log(E, Removal(c, "fails"))
                           /\ UNCHANGED <<disk, pc>>
                      ELSE \E save \in E.io :
                        IF save = "fails"
                        THEN /\ disk' = cleared
                             /\ last' = Log(E, Returned(c, ServerError))
                             /\ Return(c)
                        ELSE IF rel = None
                        THEN /\ disk' = Written(cleared, place, f.body)
                             /\ last' = Log(E, Returned(c, ServerError))
                             /\ Return(c)
                        ELSE \E now \in E.times :
                             /\ disk' = Written(cleared, place, f.body)
                             /\ last' = IF removes THEN Log(E, Removal(c, "ok"))
                                        ELSE NoEvent
                             /\ pc' = pc
                             /\ local' = [local EXCEPT
                                  ![c].data = Append(@,
                                     [id                |-> next_id(l.data),
                                      year              |-> l.year,
                                      semester          |-> l.semester,
                                      subject           |-> l.subject,
                                      exam_type         |-> l.exam_type,
                                      exam_year         |-> l.exam_year,
                                      academic_year     |-> l.academic_year,
                                      original_filename |-> f.filename,
                                      stored_path       |-> rel[1],
                                      uploaded_at       |-> now]),
                                  ![c].saved_count = @ + 1,
                                  ![c].i = @ + 1]

IdsOf(data) == {data[i].id : i \in 1..Len(data)}

\* save_data: DATA_FILE overwritten with the whole of `data`
save_dataMerging(E, data) ==
    /\ persisted' = persisted \o
          SelectSeq(data, LAMBDA p : \A i \in 1..Len(persisted) : persisted[i] # p)
    /\ removed' = removed

save_data(E, data) ==
    /\ persisted' = data
    /\ removed' = IF E.history THEN removed \cup (IdsOf(persisted) \ IdsOf(data)) ELSE removed

\* upload: after the loop, save_data and the flashes
UploadSave(c, E) ==
    /\ pc[c] = "upload_files" /\ local[c].i > Len(local[c].files)
    /\ save_data(E, local[c].data)
    /\ LET l == local[c]
       IN  last' = Log(E, Returned(c,
             (IF l.saved_count # 0
              THEN <<FlashN("success", "Uploaded {saved_count} file(s) successfully.",
                            l.saved_count)>>
              ELSE <<>>)
             \o (IF l.skipped_count # 0 \/ l.warnings # <<>>
                 THEN <<FlashAbout("warning", "warnings", l.warnings)>>
                 ELSE <<>>)))
    /\ Return(c)
    /\ UNCHANGED <<disk, dirs, session, call>>

\* next((p for p in data if p["id"] == paper_id), None)
FirstWithIdOrFirst(data, paper_id) ==
    LET hits == {i \in 1..Len(data) : data[i].id = paper_id}
    IN  IF hits = {} THEN (IF data = <<>> THEN None ELSE Some(data[1]))
        ELSE Some(data[CHOOSE i \in hits : \A j \in hits : i <= j])

FirstWithId(data, paper_id) ==
    LET hits == {i \in 1..Len(data) : data[i].id = paper_id}
    IN  IF hits = {} THEN None
        ELSE Some(data[CHOOSE i \in hits : \A j \in hits : i <= j])

\* delete_paper: from the session check to the lookup
DeleteEnter(c, E) ==
    /\ pc[c] = "idle"
    /\ UNCHANGED <<persisted, disk, dirs, session, removed, call>>
    /\ \E r \in DeleteRequests :
         IF ~session[c]
         THEN /\ last' = Log(E, Answered(c, r, RedirectToLogin))
              /\ UNCHANGED <<pc, local>>
         ELSE LET data   == load_data
                  record == FirstWithId(data, r.paper_id)
              IN  IF record = None
                  THEN /\ last' = Log(E, Answered(c, r, <<Flash("warning", "Paper not found.")>>))
                       /\ UNCHANGED <<pc, local>>
                  ELSE /\ pc' = [pc EXCEPT ![c] = "delete_unlink"]
                       /\ last' = Log(E, Received(c, r))
                       /\ local' = [local EXCEPT ![c] =
                            [data     |-> data,
                             paper_id |-> r.paper_id,
                             rel      |-> record[1].stored_path,
                             warnings |-> <<>>]]

\* delete_paper: unlink(missing_ok=True) of the record's file
DeleteUnlink(c, E) ==
    /\ pc[c] = "delete_unlink"
    /\ pc' = [pc EXCEPT ![c] = "delete_save"]
    /\ last' = NoEvent
    /\ UNCHANGED <<persisted, dirs, session, removed, call>>
    /\ LET rel  == local[c].rel
           path == Real(PathJoin(UPLOAD_FOLDER, rel))
       IN  IF rel = <<>>
           THEN UNCHANGED <<disk, local>>
           ELSE \E unlink \in E.io :
                  IF unlink = "fails" \/ path \in dirs
                  THEN /\ disk' = disk
                       /\ local' = [local EXCEPT ![c].warnings =
                            <<Flash("warning", "Couldn't remove file from disk")>>]
                  ELSE /\ disk' = IF path \in DOMAIN disk
                                  THEN Unlinked(disk, path) ELSE disk
                       /\ local' = local

\* [p for p in data if p["id"] != paper_id]
WithoutIdRenumbered(data, paper_id) ==
    LET kept == SelectSeq(data, LAMBDA p : p.id # paper_id)
    IN  [i \in 1..Len(kept) |-> [kept[i] EXCEPT !.id = i]]

RECURSIVE WithoutId(_, _)
WithoutId(data, paper_id) ==
    IF data = <<>> THEN <<>>
    ELSE (IF Head(data).id # paper_id THEN <<Head(data)>> ELSE <<>>)
         \o WithoutId(Tail(data), paper_id)

\* delete_paper: the record filtered out, save_data, the flashes
DeleteSaveUnlessWarned(c, E) ==
    /\ pc[c] = "delete_save"
    /\ IF local[c].warnings # <<>>
       THEN persisted' = persisted /\ removed' = removed
       ELSE save_data(E, WithoutId(local[c].data, local[c].paper_id))
    /\ last' = Log(E, Returned(c, local[c].warnings \o <<Flash("success", "Paper deleted.")>>))
    /\ Return(c)
    /\ UNCHANGED <<disk, dirs, session, call>>

DeleteSave(c, E) ==
    /\ pc[c] = "delete_save"
    /\ save_data(E, WithoutId(local[c].data, local[c].paper_id))
    /\ last' = Log(E, Returned(c, local[c].warnings \o <<Flash("success", "Paper deleted.")>>))
    /\ Return(c)
    /\ UNCHANGED <<disk, dirs, session, call>>

----------------------------------------------------------------------------
(* The store as the program starts: papers.json as an earlier run left it,   *)
(* healed by normalize_data_paths, and the files of its records              *)

OldPaper(id, path, name) ==
    [id |-> id, year |-> 1, semester |-> 1, subject |-> <<"Physics">>,
     exam_type |-> <<"Mid">>, exam_year |-> 2023, academic_year |-> None,
     original_filename |-> name, stored_path |-> path, uploaded_at |-> "t1"]

OldCollection ==
    << OldPaper(1, <<"1", "\\", "1", "\\", "Physics", "\\", "Mid", "\\", "old", ".", "pdf">>,
                <<"old", ".", "pdf">>),
       OldPaper(3, <<"1", "/", "1", "/", "Physics", "/", "Mid", "/", "a", ".", "pdf">>,
                <<"a", ".", "pdf">>) >>

FilesOf(coll) ==
    [path \in {PathJoin(UPLOAD_FOLDER, coll[i].stored_path) : i \in 1..Len(coll)} |-> "v0"]

DirsOf(coll) ==
    WithParents(UPLOAD_FOLDER) \cup
    UNION {WithParents(PathJoin(UPLOAD_FOLDER,
              SubSeq(coll[i].stored_path, 1, Len(coll[i].stored_path) - 4)))
           : i \in 1..Len(coll)}

Idle ==
    /\ session = [c \in Clients |-> FALSE]
    /\ pc = [c \in Clients |-> "idle"]
    /\ local = [c \in Clients |-> NoLocal]
    /\ last = NoEvent
    /\ removed = {}
    /\ call = NoCall

InitFrom(collections) ==
    /\ \E c \in collections :
         /\ persisted = HealedData(c)
         /\ disk = FilesOf(HealedData(c))
         /\ dirs = DirsOf(HealedData(c))
    /\ Idle

Init == InitFrom({<<>>, OldCollection})

Step(c, E) ==
    \/ admin_login(c, E)
    \/ admin_logout(c, E)
    \/ UploadEnter(c, E)
    \/ UploadFile(c, E)
    \/ UploadSave(c, E)
    \/ DeleteEnter(c, E)
    \/ DeleteUnlink(c, E)
    \/ DeleteSave(c, E)

\* the concurrent system: two clients, any interleaving of the handlers' steps
Next == \E c \in Clients : Step(c, FewEnv)

Spec == Init /\ [][Next]_vars

\* one client, so one request at a time
NextSeq == Step(1, SeqEnv)

SpecSeq == Init /\ [][NextSeq]_vars

\* one client, and no file-system call fails
NextSeqOk == Step(1, SeqOkEnv)

SpecSeqOk == Init /\ [][NextSeqOk]_vars

\* one client, every kind of bad upload form
NextCheck == Step(1, CheckEnv)

SpecCheck == Init /\ [][NextCheck]_vars

\* one client, subjects of every shape
NextPaths == Step(1, PathEnv)

SpecPaths == Init /\ [][NextPaths]_vars

----------------------------------------------------------------------------
(* Start-up and file serving: the two places a path is normalised *)

\* the longest path text, in tokens
MaxPathLen == 4

PathTexts == SeqsUpTo({"a", "/", "\\"}, MaxPathLen)

\* the stored_path values an earlier run may have left: relative, a name
\* first and a name last, any separators between
StoredPathTexts == {sp \in PathTexts : sp # <<>> /\ sp[1] = "a" /\ sp[Len(sp)] = "a"}

\* the relpath values the route /files/<path:relpath> hands over: no leading
\* slash and no doubled slash, any backslashes
RoutedPathTexts ==
    {rp \in PathTexts : /\ rp # <<>> /\ rp[1] # "/"
                         /\ \A i \in 1..(Len(rp) - 1) : ~(rp[i] = "/" /\ rp[i + 1] = "/")}

ChangedCount(coll) ==
    Cardinality({i \in 1..Len(coll) : FixStoredPath(coll[i].stored_path) # coll[i].stored_path})

\* normalize_data_paths, as the module runs it when it is imported
normalize_data_paths ==
    /\ call.op = "none"
    /\ LET data    == load_data
           changed == ChangedCount(data)
       IN  /\ persisted' = IF changed # 0 THEN HealedData(data) ELSE persisted
           /\ call' = [op |-> "normalize_data_paths", arg |-> data, result |-> changed]
    /\ UNCHANGED <<disk, dirs, session, pc, local, last, removed>>

\* serve_file: the path handed to send_from_directory
serve_file ==
    /\ call.op # "none"
    /\ \E relpath \in RoutedPathTexts :
         call' = [op |-> "serve_file", arg |-> relpath, result |-> ServeNormalize(relpath)]
    /\ UNCHANGED <<persisted, disk, dirs, session, pc, local, last, removed>>

\* papers.json as an earlier run left it: one record
InitNorm ==
    /\ \E sp \in StoredPathTexts :
         persisted = <<OldPaper(1, sp, <<"old", ".", "pdf">>)>>
    /\ disk = <<>>
    /\ dirs = WithParents(UPLOAD_FOLDER)
    /\ Idle

NextNorm == normalize_data_paths \/ serve_file

SpecNorm == InitNorm /\ [][NextNorm]_vars

----------------------------------------------------------------------------
(* The exam-year parser on its own *)

StartTexts ==
    { <<"2", "0", "2", "4">>, <<"2", "0", "9", "9">>, <<"1", "9", "9", "9">>,
      <<"0", "0", "2", "4">>, <<"0", "0", "0", "0">> }

DashTexts == { <<"-">>, <<"en-dash">>, <<"em-dash">>, <<" ", "-", " ">>, <<>>, <<"/">> }

EndTexts ==
    { <<"2", "5">>, <<"0", "0">>, <<"9", "9">>, <<"2", "4">>,
      <<"2", "0", "2", "5">>, <<"2", "0", "2", "0">>, <<"0", "0", "0", "5">>,
      <<"5">>, <<"2", "0", "2">>, <<"x", "y">>, <<>> }

\* the texts a form may carry in exam_year: ranges and years, well formed
\* and not, with blanks around
ExamYearTexts ==
    { pre \o st \o d \o en \o pre :
        pre \in {<<>>, <<" ">>}, st \in StartTexts \cup {<<"2", "0", "2">>, <<"abc">>},
        d \in DashTexts, en \in EndTexts }

\* parse_exam_year(value), called on its own
ParseExamYear ==
    /\ call.op = "none"
    /\ \E value \in ExamYearTexts :
         call' = [op |-> "parse_exam_year", arg |-> value,
                  result |-> parse_exam_year(value)]
    /\ UNCHANGED <<persisted, disk, dirs, session, pc, local, last, removed>>

InitParse == InitFrom({<<>>})

NextParse == ParseExamYear

SpecParse == InitParse /\ [][NextParse]_vars

----------------------------------------------------------------------------
(* Listing *)

\* the most records in a listed collection
MaxList == 3

Meta(year, semester, subject, exam_type, exam_year) ==
    [year |-> year, semester |-> semester, subject |-> subject,
     exam_type |-> exam_type, exam_year |-> exam_year]

SampleMetas ==
    { Meta(2, 3, <<"Maths">>, <<"Mid">>, 2023),
      Meta(2, 3, <<"maths">>, <<"End">>, 2025),
      Meta(2, 4, <<"Maths">>, <<"End">>, 2023),
      Meta(1, 1, <<"Physics">>, <<"Mid">>, 2023) }

PaperOf(id, m) ==
    [id |-> id, year |-> m.year, semester |-> m.semester, subject |-> m.subject,
     exam_type |-> m.exam_type, exam_year |-> m.exam_year, academic_year |-> None,
     original_filename |-> <<"a", ".", "pdf">>,
     stored_path |-> RelativeTo(PathJoin(TargetDir(m.year, m.semester, m.subject,
                                                   m.exam_type),
                                         <<"a", ".", "pdf">>), UPLOAD_FOLDER)[1],
     uploaded_at |-> "t1"]

SampleCollections ==
    UNION { {[i \in 1..k |-> PaperOf(i, f[i])] : f \in [1..k -> SampleMetas]}
            : k \in 0..MaxList }

ListArgs ==
    [year      : {<<>>, <<"2">>, <<"x">>},
     semester  : {<<>>, <<"3", " ">>},
     subject   : {<<>>, <<"Maths">>},
     exam_type : {<<>>, <<"Mid">>}]

\* papers_list, GET
PapersList ==
    /\ \E args \in ListArgs :
         call' = [op |-> "papers_list", arg |-> args,
                  result |-> papers_list(load_data, args)]
    /\ UNCHANGED <<persisted, disk, dirs, session, pc, local, last, removed>>

InitList == InitFrom(SampleCollections)

NextList == PapersList

SpecList == InitList /\ [][NextList]_vars

----------------------------------------------------------------------------
(* Properties *)

AllIdle == \A c \in Clients : pc[c] = "idle"

FileOf(p) == Real(PathJoin(UPLOAD_FOLDER, p.stored_path))

\* C1: ids are never recycled: a record whose id was removed from the
\* collection is never followed by a record with the same id
C1_NoRecycledId ==
    \A i \in 1..Len(persisted) : persisted[i].id \notin removed

\* C2: the ids of the persisted collection are pairwise distinct positive
\* integers, whatever the interleaving of the upload and delete handlers
C2_UniqueIds ==
    /\ \A i \in 1..Len(persisted) : persisted[i].id \in Nat \ {0}
    /\ \A i, j \in 1..Len(persisted) : i # j => persisted[i].id # persisted[j].id

\* a handler holds a copy of the collection that another handler's save has
\* since overwritten, and the collection holds two records
C2_Witness ==
    /\ Len(persisted) >= 2
    /\ \E c \in Clients : pc[c] = "upload_files" /\ local[c].saved_count > 0
                          /\ local[c].data # persisted
                          /\ Len(local[c].data) > Len(persisted)

\* C3: when no request is running (and none failed on I/O), every record's
\* stored_path names a file that exists under the upload root
C3_RecordsHaveFiles ==
    AllIdle => \A i \in 1..Len(persisted) : FileOf(persisted[i]) \in DOMAIN disk

\* the metadata checks, as the data model states them
FailsMetadata(r) ==
    LET year     == IntOrZero(r.form.year)
        semester == IntOrZero(r.form.semester)
        parsed   == parse_exam_year(Strip(r.form.exam_year))
    IN  \/ year = None \/ semester = None
        \/ year # None /\ year[1] \notin {1, 2, 3, 4}
        \/ semester # None /\ semester[1] \notin 1..8
        \/ Strip(r.form.exam_type) \notin {<<"Mid">>, <<"End">>}
        \/ Strip(r.form.subject) = <<>>
        \/ parsed.exam_year = None
        \/ parsed.exam_year # None /\ parsed.exam_year[1] < 2000
        \/ \A k \in 1..Len(r.files) : r.files[k].filename = <<>>

\* C4: an upload request that fails a metadata check is answered at once and
\* creates no directory, writes and deletes no file and leaves the collection
C4_ValidationAllOrNothing ==
    [][ (last'.request.kind = "upload" /\ FailsMetadata(last'.request))
        => /\ last'.returned
           /\ pc' = pc
           /\ dirs' = dirs /\ disk' = disk /\ persisted' = persisted ]_vars

\* an authorized upload with bad metadata was answered with a validation
\* message, over a collection that holds records
C4_Witness ==
    /\ last.request.kind = "upload" /\ FailsMetadata(last.request)
    /\ session[last.client]
    /\ last.flashes = <<Flash("warning", MsgFields)>>
    /\ persisted # <<>>

\* C5: a batch of n files that passed the metadata checks ends only once
\* every file has had its turn, whatever happened to the files before it, and
\* then saved_count + skipped_count = n and the collection has grown by
\* saved_count records
C5_BatchAccounting ==
    [][ \A c \in Clients :
          (pc[c] = "upload_files" /\ pc'[c] = "idle")
          => LET l == local[c]
             IN  /\ l.i = Len(l.files) + 1
                 /\ l.saved_count + l.skipped_count = Len(l.files)
                 /\ Len(persisted') = Len(persisted) + l.saved_count
                 /\ SubSeq(persisted', 1, Len(persisted)) = persisted ]_vars

\* C6: a delete of an id in the collection removes the record, whatever the
\* unlink of its file did
C6_DeleteRemovesRecord ==
    [][ \A c \in Clients :
          (pc[c] \in {"delete_unlink", "delete_save"} /\ pc'[c] = "idle")
          => /\ local[c].paper_id \notin IdsOf(persisted')
             /\ Len(persisted') < Len(local[c].data) ]_vars

\* a delete whose unlink failed has completed with the warning
C6_Witness ==
    /\ last.returned
    /\ last.flashes = <<Flash("warning", "Couldn't remove file from disk"),
                        Flash("success", "Paper deleted.")>>
    /\ disk # <<>>

\* C7: a delete of an id that is not in the collection reports not-found and
\* changes nothing: the handler returns without a save_data or an unlink
C7_DeleteMissingIsNoOp ==
    [][ ( /\ last'.request.kind = "delete"
          /\ session[last'.client]
          /\ last'.request.paper_id \notin IdsOf(persisted) )
        => /\ last'.returned
           /\ last'.flashes = <<Flash("warning", "Paper not found.")>>
           /\ pc' = pc
           /\ persisted' = persisted /\ disk' = disk /\ dirs' = dirs ]_vars

\* not-found was reported over a collection that holds records
C7_Witness ==
    /\ last.request.kind = "delete"
    /\ last.flashes = <<Flash("warning", "Paper not found.")>>
    /\ persisted # <<>>

\* C8: every save_data leaves the collection equal to the saving handler's
\* in-memory copy, with no merge of what another handler saved meanwhile
C8_LastWriterWins ==
    [][ \A c \in Clients :
          /\ (pc[c] = "upload_files" /\ pc'[c] = "idle")
                => persisted' = local[c].data
          /\ (pc[c] = "delete_save" /\ pc'[c] = "idle")
                => persisted' = WithoutId(local[c].data, local[c].paper_id) ]_vars

\* the lost update: no handler is running and none has failed, a file that an
\* upload wrote is on disk, and the collection holds no record of it
C8_Witness ==
    /\ AllIdle
    /\ \E path \in DOMAIN disk :
         /\ disk[path] = "v1"
         /\ \A i \in 1..Len(persisted) : FileOf(persisted[i]) # path


\* a filter as the request supplies it: absent when empty (or not a number)
Supplied(text) == Strip(text) # <<>>
SuppliedInt(text) == Strip(text) # <<>> /\ AllDigits(Strip(text))

Matches(p, args) ==
    /\ SuppliedInt(args.year) => p.year = DigitsToInt(Strip(args.year))
    /\ SuppliedInt(args.semester) => p.semester = DigitsToInt(Strip(args.semester))
    /\ Supplied(args.subject) => LowerText(p.subject) = LowerText(Strip(args.subject))
    /\ Supplied(args.exam_type) => p.exam_type = Strip(args.exam_type)

\* x may come before y: exam_year descending, then subject, then exam_type
InOrder(x, y) ==
    \/ x.exam_year > y.exam_year
    \/ /\ x.exam_year = y.exam_year
       /\ \/ TextLess(x.subject, y.subject)
          \/ x.subject = y.subject /\ ~TextLess(y.exam_type, x.exam_type)

\* C9: a listing holds exactly the records that match the filters, ordered by
\* exam_year descending, subject ascending, exam_type ascending, and leaves
\* the collection as it was
C9_ListingFiltersAndSorts ==
    [][ call'.op = "papers_list"
        => LET res  == call'.result
               args == call'.arg
               want == {i \in 1..Len(persisted) : Matches(persisted[i], args)}
           IN  /\ persisted' = persisted
               /\ Len(res) = Cardinality(want)
               /\ \A i \in want : \E j \in 1..Len(res) : res[j] = persisted[i]
               /\ \A j \in 1..Len(res) : \E i \in want : res[j] = persisted[i]
               /\ \A j, k \in 1..Len(res) : j < k => InOrder(res[j], res[k]) ]_vars

\* a listing by subject "Maths" kept a record stored as "maths", dropped
\* another record, and returned the kept ones in another order than stored
C9_Witness ==
    /\ call.op = "papers_list"
    /\ call.arg.subject = <<"Maths">>
    /\ Len(call.result) >= 2 /\ Len(call.result) < Len(persisted)
    /\ \E j \in 1..Len(call.result) : call.result[j].subject = <<"maths">>
    /\ \E j, k \in 1..Len(call.result) : j < k /\ call.result[j].id > call.result[k].id

\* forward slashes only, none doubled, none leading
Canonical(path) ==
    /\ \A i \in 1..Len(path) : path[i] # "\\"
    /\ \A i \in 1..(Len(path) - 1) : ~(path[i] = "/" /\ path[i + 1] = "/")
    /\ path = <<>> \/ path[1] # "/"

\* C10: at both places, the normalised path is canonical and normalising it
\* again returns it unchanged
C10_NormalizedIsCanonical ==
    /\ call.op = "serve_file"
         => Canonical(call.result) /\ ServeNormalize(call.result) = call.result
    /\ call.op # "none"
         => \A i \in 1..Len(persisted) :
              /\ Canonical(persisted[i].stored_path)
              /\ FixStoredPath(persisted[i].stored_path) = persisted[i].stored_path

\* the text the parser matches: blanks stripped, dashes made hyphens, spaces out
NormalizedYearText(value) ==
    Remove1(Replace1(Replace1(Strip(value), "en-dash", "-"), "em-dash", "-"), " ")

IsYear(s) == Len(s) = 4 /\ AllDigits(s)

IsRange(s) ==
    /\ Len(s) \in {7, 9}
    /\ AllDigits(SubSeq(s, 1, 4)) /\ s[5] = "-" /\ AllDigits(SubSeq(s, 6, Len(s)))

\* the end year the data model states for start S and the digits of the end
StatedEnd(S, digits) ==
    LET E == IF Len(digits) = 4 THEN DigitsToInt(digits)
             ELSE (S \div 100) * 100 + DigitsToInt(digits)
    IN  IF E < S THEN S + 1 ELSE E

\* the two numbers of a display range "S-E", read back from its text
RangeStart(text) ==
    DigitsToInt(SubSeq(text, 1, (CHOOSE i \in 1..Len(text) : text[i] = "-") - 1))
RangeEnd(text) ==
    DigitsToInt(SubSeq(text, (CHOOSE i \in 1..Len(text) : text[i] = "-") + 1, Len(text)))

\* C11: a range YYYY-YY or YYYY-YYYY parses to (S, "S-E") with E the stated
\* end, never before S; a bare year to (year, absent); anything else to
\* (absent, absent)
C11_ParsesRanges ==
    call.op = "parse_exam_year" =>
      LET s == NormalizedYearText(call.arg)
          r == call.result
      IN  /\ IsRange(s) =>
                LET S == DigitsToInt(SubSeq(s, 1, 4))
                    E == StatedEnd(S, SubSeq(s, 6, Len(s)))
                IN  /\ r.exam_year = Some(S)
                    /\ r.academic_year = IntToDigits(S) \o <<"-">> \o IntToDigits(E)
                    /\ RangeStart(r.academic_year) = S
                    /\ RangeEnd(r.academic_year) >= S
          /\ IsYear(s) => r.exam_year = Some(DigitsToInt(s)) /\ r.academic_year = None
          /\ (~IsRange(s) /\ ~IsYear(s)) => r.exam_year = None /\ r.academic_year = None

\* a range whose two-digit end falls before its start was parsed, and its
\* end was replaced by start + 1 across the century
C11_Witness ==
    /\ call.op = "parse_exam_year"
    /\ call.arg = <<"2", "0", "9", "9", "en-dash", "0", "0">>
    /\ call.result.exam_year = Some(2099)
    /\ call.result.academic_year = <<"2", "0", "9", "9", "-", "2", "1", "0", "0">>

\* the layout of the data model: <year>/<semester>/<subject>/<exam_type>/<name>
StatedPath(p) ==
    IntToDigits(p.year) \o <<"/">> \o IntToDigits(p.semester) \o <<"/">> \o p.subject
        \o <<"/">> \o p.exam_type \o <<"/">> \o secure_filename(p.original_filename)

\* C12: every record's stored_path is <year>/<semester>/<subject>/<exam_type>/
\* <sanitized filename> and holds no backslash, whatever subject was accepted
C12_StoredPathShape ==
    \A i \in 1..Len(persisted) :
       /\ persisted[i].stored_path = StatedPath(persisted[i])
       /\ \A k \in 1..Len(persisted[i].stored_path) : persisted[i].stored_path[k] # "\\"

\* inside the upload root
Inside(path) == IsPrefix(UPLOAD_FOLDER \o <<"/">>, path)

\* C17: every directory a step creates and every file it writes or deletes
\* lies inside the upload root, whatever subject was accepted
C17_UploadConfined ==
    [][ /\ \A d \in dirs' \ dirs : Inside(d)
        /\ \A p \in (DOMAIN disk') \cup (DOMAIN disk) :
              (p \notin DOMAIN disk \/ p \notin DOMAIN disk' \/ disk[p] # disk'[p])
              => Inside(p) ]_vars

\* C13: while an upload processes its files the collection is not written;
\* it is overwritten once, after the last file; and when the request fails
\* before that, the collection is as it was before the request while the
\* files the request wrote are on disk with no record
C13_OneSaveAtEnd ==
    [][ \A c \in Clients :
          pc[c] = "upload_files" =>
            LET l        == local[c]
                before   == SubSeq(l.data, 1, Len(l.data) - l.saved_count)
                appended == SubSeq(l.data, Len(before) + 1, Len(l.data))
            IN  /\ pc'[c] = "upload_files" => persisted' = persisted
                /\ (pc'[c] = "idle" /\ l.i > Len(l.files)) => persisted' = l.data
                /\ (pc'[c] = "idle" /\ l.i <= Len(l.files)) =>
                      /\ persisted' = persisted /\ persisted' = before
                      /\ \A k \in 1..Len(appended) :
                            /\ FileOf(appended[k]) \in DOMAIN disk'
                            /\ \A i \in 1..Len(persisted') :
                                  persisted'[i].stored_path # appended[k].stored_path ]_vars

C15_RecordsImmutable ==
    [][ \/ persisted' = persisted
        \/ \E c \in Clients :
             /\ pc[c] = "upload_files" /\ pc'[c] = "idle"
             /\ Len(persisted') > Len(persisted)
             /\ \A i \in 1..Len(persisted) : persisted'[i] = persisted[i]
        \/ \E c \in Clients :
             /\ pc[c] = "delete_save" /\ pc'[c] = "idle"
             /\ persisted' = SelectSeq(persisted, LAMBDA p : p.id # local[c].paper_id) ]_vars

\* a delete has removed the first of the two old records and the second is
\* as it was
C15_Witness ==
    /\ last.returned /\ last.flashes = <<Flash("success", "Paper deleted.")>>
    /\ persisted = <<HealedData(OldCollection)[2]>>

\* the gate, apart from what sets the flag: an upload or delete from a session
\* without the flag is sent to the login page and changes nothing, no handler
\* of such a session gets past its first line, and logout clears the flag
GateRefuses ==
    /\ (last'.request.kind \in {"upload", "delete"} /\ ~session[last'.client])
          => /\ last'.returned /\ last'.flashes = RedirectToLogin
             /\ persisted' = persisted /\ disk' = disk /\ dirs' = dirs /\ pc' = pc
    /\ \A c \in Clients : (pc[c] = "idle" /\ pc'[c] # "idle") => session[c]
    /\ last'.request.kind = "logout" => ~session'[last'.client]
    /\ \A c \in Clients :
          (session[c] /\ ~session'[c]) => (last'.request.kind = "logout" /\ last'.client = c)

\* C16, as stated: the flag becomes set only by a login whose submitted
\* password equals the configured password
C16_GateByEqualPassword ==
    [][ /\ GateRefuses
        /\ \A c \in Clients :
              (~session[c] /\ session'[c])
              => /\ last'.request.kind = "login" /\ last'.client = c
                 /\ last'.request.password = UPLOAD_PASSWORD ]_vars

\* C16, amended: the flag becomes set only by a login whose submitted
\* password, with the blanks around it stripped, equals the configured one
C16_GateByStrippedPassword ==
    [][ /\ GateRefuses
        /\ \A c \in Clients :
              (~session[c] /\ session'[c])
              => /\ last'.request.kind = "login" /\ last'.client = c
                 /\ Strip(last'.request.password) = UPLOAD_PASSWORD ]_vars

\* an upload is refused after a logout: the session has no flag, and a file
\* that an earlier upload of the session wrote is on disk
C16_Witness ==
    /\ last.request.kind = "upload" /\ last.flashes = RedirectToLogin
    /\ ~session[last.client]
    /\ \E p \in DOMAIN disk : disk[p] = "v1"

====
